---- MODULE Spec2Model ----
(***************************************************************************)
(* Model of controllers/helpers.go of aws-iam-operator: the three object   *)
(* lifecycle dispatchers (CreateAWSObject, UpdateAWSObject,                *)
(* DeleteAWSObject), the error classifier ignoreDoesNotExistError, the     *)
(* three status updaters and their application to a Status Record, and the *)
(* policy version pruner CleanUpPolicyVersions.                            *)
(***************************************************************************)
EXTENDS Integers, Sequences, FiniteSets, TLC

(***************************************************************************)
(* Bounds of the model.                                                    *)
(***************************************************************************)
\* the wall clock runs from 0 to MaxClock ticks
MaxClock == 2
\* clock ticks per minute: time.RFC822Z has minute resolution
TicksPerMinute == 2
\* largest number of versions the managed policy starts with
MaxInitialVersions == 6

(***************************************************************************)
(* Errors.  A Go error value is modelled by its dynamic type (kind), the   *)
(* error code an aws.InstanceError carries, and the text Error() returns.  *)
(* NoErr is the nil error.                                                 *)
(***************************************************************************)
NoErr == [kind |-> "nil", code |-> "", text |-> ""]

ErrAWSInstanceNotYetCreated == "InstanceNotYetCreated"

ErrorCodes == {ErrAWSInstanceNotYetCreated, "InstanceAlreadyCreated"}

ErrorTexts == {"boom", "gone"}

\* errors whose dynamic type is aws.InstanceError: "not yet created" with
\* either text, and one of another code
InstanceErrors ==
    [kind : {"InstanceError"}, code : {ErrAWSInstanceNotYetCreated}, text : ErrorTexts]
    \cup {[kind |-> "InstanceError", code |-> c, text |-> "boom"] :
             c \in ErrorCodes \ {ErrAWSInstanceNotYetCreated}}

\* errors of any other dynamic type: one without a code, and one that wraps
\* the "not yet created" code, which the type assertion of
\* ignoreDoesNotExistError does not see
OtherErrors ==
    {[kind |-> "other", code |-> "", text |-> "boom"],
     [kind |-> "other", code |-> ErrAWSInstanceNotYetCreated, text |-> "gone"]}

Errors == InstanceErrors \cup OtherErrors

ErrOrNil == Errors \cup {NoErr}

\* the operation result of a call that never invoked the instance operation
NotCalled == [kind |-> "notcalled", code |-> "", text |-> ""]

\* what the instance operation can return, given what the pre-check returned:
\* it is invoked only after a pre-check that returned nil
OpResults(pre) == IF pre = NoErr THEN ErrOrNil ELSE {NotCalled}

\* err.Error()
ErrorText(err) == err.text

\* castErr.IsOfErrorCode(code)
IsOfErrorCode(err, code) == err.code = code

\* variant: squashes nothing
ignoreDoesNotExistError_Never(err) == err

\* variant: reads the code without the type assertion
ignoreDoesNotExistError_NoCast(err) ==
    IF err # NoErr /\ IsOfErrorCode(err, ErrAWSInstanceNotYetCreated) THEN NoErr ELSE err

\* variant: tests for another error code
ignoreDoesNotExistError_WrongCode(err) ==
    IF err # NoErr /\ err.kind = "InstanceError" /\ IsOfErrorCode(err, "InstanceAlreadyCreated")
    THEN NoErr ELSE err

ignoreDoesNotExistError(err) ==
    IF err # NoErr
    THEN IF err.kind = "InstanceError"
         THEN IF IsOfErrorCode(err, ErrAWSInstanceNotYetCreated) THEN NoErr ELSE err
         ELSE err
    ELSE err

(***************************************************************************)
(* Status updaters: the value a dispatcher returns.  The closure is        *)
(* modelled by its variant and the reason it captured.                     *)
(***************************************************************************)
SuccessStatusUpdater == [tag |-> "Success", reason |-> ""]

ErrorStatusUpdater(reason) == [tag |-> "Error", reason |-> reason]

DoNothingStatusUpdater == [tag |-> "NoOp", reason |-> ""]

(***************************************************************************)
(* The Status Record and the instances.                                    *)
(***************************************************************************)
OkSyncState == "Ok"

ErrorSyncState == "Error"

SuccessMessage == "Succesfully reconciled"

\* the instances a reconciler holds, each with the ARN its ARN() resolves to
Instances == {"role", "policy"}

\* ins.ARN().String()
ARNString(ins) == IF ins = "role" THEN "arn:aws:iam::1:role/r" ELSE "arn:aws:iam::1:policy/p"

\* the status of a freshly created custom resource: every field is the zero value
EmptyStatus == [ARN |-> "", Message |-> "", State |-> "", LastSyncAttempt |-> <<>>]

\* variant: a layout that prints the seconds alone
FormatRFC822Z_SecondsOnly(t) == <<t % TicksPerMinute>>

\* t.Format(time.RFC822Z): "02 Jan 06 15:04 -0700" keeps the minute and drops
\* the seconds; the text is modelled by the one-element sequence of the minute
FormatRFC822Z(t) == <<t \div TicksPerMinute>>

\* what sw.Update can return: nil, or an error of the API server
PersistErr == [kind |-> "other", code |-> "", text |-> "conflict"]

UpdateResults == {NoErr, PersistErr}

(***************************************************************************)
(* The dispatchers, as functions of what the pre-check returns (pre) and   *)
(* of what the instance operation returns when it is called (op).          *)
(***************************************************************************)
Return(fn, pre, op, calls, updater, err) ==
    [fn |-> fn, pre |-> pre, op |-> op, calls |-> calls, updater |-> updater, err |-> err,
     arg |-> NoErr]

\* variant: Create squashes the "not yet created" error as Delete does
CreateAWSObjectResult_Squash(pre, op) ==
    IF pre # NoErr
    THEN Return("Create", pre, NotCalled, <<"preFunc">>, ErrorStatusUpdater(ErrorText(pre)), pre)
    ELSE IF ignoreDoesNotExistError(op) # NoErr
         THEN Return("Create", pre, op, <<"preFunc", "Create">>, ErrorStatusUpdater(ErrorText(op)), op)
         ELSE Return("Create", pre, op, <<"preFunc", "Create">>, SuccessStatusUpdater, NoErr)

CreateAWSObjectResult(pre, op) ==
    IF pre # NoErr
    THEN Return("Create", pre, NotCalled, <<"preFunc">>, ErrorStatusUpdater(ErrorText(pre)), pre)
    ELSE IF op # NoErr
         THEN Return("Create", pre, op, <<"preFunc", "Create">>, ErrorStatusUpdater(ErrorText(op)), op)
         ELSE Return("Create", pre, op, <<"preFunc", "Create">>, SuccessStatusUpdater, NoErr)

\* variant: Update invokes the Create operation
UpdateAWSObjectResult_CallsCreate(pre, op) ==
    IF pre # NoErr
    THEN Return("Update", pre, NotCalled, <<"preFunc">>, ErrorStatusUpdater(ErrorText(pre)), pre)
    ELSE IF op # NoErr
         THEN Return("Update", pre, op, <<"preFunc", "Create">>, ErrorStatusUpdater(ErrorText(op)), op)
         ELSE Return("Update", pre, op, <<"preFunc", "Create">>, SuccessStatusUpdater, NoErr)

UpdateAWSObjectResult(pre, op) ==
    IF pre # NoErr
    THEN Return("Update", pre, NotCalled, <<"preFunc">>, ErrorStatusUpdater(ErrorText(pre)), pre)
    ELSE IF op # NoErr
         THEN Return("Update", pre, op, <<"preFunc", "Update">>, ErrorStatusUpdater(ErrorText(op)), op)
         ELSE Return("Update", pre, op, <<"preFunc", "Update">>, SuccessStatusUpdater, NoErr)

\* variant: Delete classifies the pre-check error too
DeleteAWSObjectResult_SquashPre(pre, op) ==
    IF ignoreDoesNotExistError(pre) # NoErr
    THEN Return("Delete", pre, NotCalled, <<"preFunc">>, ErrorStatusUpdater(ErrorText(pre)), pre)
    ELSE IF ignoreDoesNotExistError(op) # NoErr
         THEN Return("Delete", pre, op, <<"preFunc", "Delete">>, ErrorStatusUpdater(ErrorText(op)), op)
         ELSE Return("Delete", pre, op, <<"preFunc", "Delete">>, DoNothingStatusUpdater, NoErr)

\* variant: Delete ends as Create and Update do
DeleteAWSObjectResult_Success(pre, op) ==
    IF pre # NoErr
    THEN Return("Delete", pre, NotCalled, <<"preFunc">>, ErrorStatusUpdater(ErrorText(pre)), pre)
    ELSE IF ignoreDoesNotExistError(op) # NoErr
         THEN Return("Delete", pre, op, <<"preFunc", "Delete">>, ErrorStatusUpdater(ErrorText(op)), op)
         ELSE Return("Delete", pre, op, <<"preFunc", "Delete">>, SuccessStatusUpdater, NoErr)

DeleteAWSObjectResult(pre, op) ==
    IF pre # NoErr
    THEN Return("Delete", pre, NotCalled, <<"preFunc">>, ErrorStatusUpdater(ErrorText(pre)), pre)
    ELSE IF ignoreDoesNotExistError(op) # NoErr
         THEN Return("Delete", pre, op, <<"preFunc", "Delete">>, ErrorStatusUpdater(ErrorText(op)), op)
         ELSE Return("Delete", pre, op, <<"preFunc", "Delete">>, DoNothingStatusUpdater, NoErr)

(***************************************************************************)
(* The bodies of the closures the updaters return: the Status Record after *)
(* the assignments, before the persistence call.                           *)
(***************************************************************************)
\* variant: the success closure leaves ARN as the error closure does
SuccessStatusBody_NoARN(st, ins, t) ==
    [st EXCEPT !.Message = SuccessMessage,
               !.State = OkSyncState,
               !.LastSyncAttempt = FormatRFC822Z(t)]

SuccessStatusBody(st, ins, t) ==
    [st EXCEPT !.ARN = ARNString(ins),
               !.Message = SuccessMessage,
               !.State = OkSyncState,
               !.LastSyncAttempt = FormatRFC822Z(t)]

\* variant: the error closure does not write State
ErrorStatusBody_NoState(st, reason, t) ==
    [st EXCEPT !.Message = reason,
               !.LastSyncAttempt = FormatRFC822Z(t)]

\* variant: the error closure resets ARN
ErrorStatusBody_ClearARN(st, reason, t) ==
    [st EXCEPT !.ARN = "",
               !.Message = reason,
               !.State = ErrorSyncState,
               !.LastSyncAttempt = FormatRFC822Z(t)]

ErrorStatusBody(st, reason, t) ==
    [st EXCEPT !.Message = reason,
               !.State = ErrorSyncState,
               !.LastSyncAttempt = FormatRFC822Z(t)]

\* the in-memory Status Record after updater u ran on st
StatusAfter(u, st, ins, t) ==
    CASE u.tag = "Success" -> SuccessStatusBody(st, ins, t)
      [] u.tag = "Error" -> ErrorStatusBody(st, u.reason, t)
      [] u.tag = "NoOp" -> st

\* variant: every updater persists
UpdateCalls_Always(u) == 1

\* the number of sw.Update calls updater u makes
UpdateCalls(u) == IF u.tag = "NoOp" THEN 0 ELSE 1

(***************************************************************************)
(* State.                                                                  *)
(***************************************************************************)
VARIABLES
    ret,        \* what the last dispatcher call was given and returned
    status,     \* obj.GetStatus(): the in-memory Status Record
    persisted,  \* the Status Record the API server stores
    now,        \* the wall clock, in ticks
    applied,    \* the last status operation: the updater applied, its
                \* instance, the sw.Update calls it made and their result,
                \* whether it repeated the operation before it, whether it
                \* logged an error, and the instance of the most recent
                \* Success application
    remote,     \* whether the instance's IAM entity exists at the provider
    versions,   \* the versions the managed policy has at the provider
    pc,         \* per pruning pass: "idle", "deleting" or "done"
    resp,       \* per pass: resp.Versions, the listing it was returned
    i,          \* per pass: the loop index (0-based, as in the code)
    perr,       \* per pass: the error the pass returned
    listErr,    \* per pass: what its ListPolicyVersions call returned
    delCalls    \* per pass: its DeletePolicyVersion calls, in order, each
                \* with the version id passed and the error returned

dispVars == <<ret, status, persisted, now, applied>>

pruneVars == <<versions, pc, resp, i, perr, listErr, delCalls>>

vars == <<ret, status, persisted, now, applied, remote,
          versions, pc, resp, i, perr, listErr, delCalls>>

\* no updater: before the first dispatcher call, and what errWithStatus returns
NoUpdater == [tag |-> "none", reason |-> ""]

NoRet == [fn |-> "none", pre |-> NotCalled, op |-> NotCalled, calls |-> <<>>,
          updater |-> NoUpdater, err |-> NoErr, arg |-> NoErr]

NoApplied == [updater |-> NoUpdater, ins |-> "",
              updates |-> 0, swErr |-> NoErr, repeat |-> FALSE,
              logged |-> FALSE, lastOk |-> ""]

DispInit ==
    /\ ret = NoRet
    /\ status = EmptyStatus
    /\ persisted = EmptyStatus
    /\ now = 0
    /\ applied = NoApplied

CreateAWSObject(pre, op) ==
    /\ ret' = CreateAWSObjectResult(pre, op)
    /\ UNCHANGED <<status, persisted, now, applied>>
    /\ UNCHANGED <<pruneVars, remote>>

UpdateAWSObject(pre, op) ==
    /\ ret' = UpdateAWSObjectResult(pre, op)
    /\ UNCHANGED <<status, persisted, now, applied>>
    /\ UNCHANGED <<pruneVars, remote>>

DeleteAWSObject(pre, op) ==
    /\ ret' = DeleteAWSObjectResult(pre, op)
    /\ UNCHANGED <<status, persisted, now, applied>>
    /\ UNCHANGED <<pruneVars, remote>>

\* variant: the record is stored although sw.Update returned an error
Persist_Always(st, stored, calls, swErr) ==
    IF calls = 1 THEN st ELSE stored

\* what the API server stores after `calls` sw.Update calls of the in-memory
\* status st that returned swErr, when it stored `stored` before
Persist(st, stored, calls, swErr) ==
    IF calls = 1 /\ swErr = NoErr THEN st ELSE stored

\* "if err != nil { log.Error(err, ...) }" of the Success and Error closures
Logged(calls, swErr) == calls = 1 /\ swErr # NoErr

\* the reconciler invokes the updater it was returned: updater(ins, obj, ctx, sw, log)
ApplyStatusUpdater(ins, swErr) ==
    /\ ret.updater # NoUpdater
    /\ status' = StatusAfter(ret.updater, status, ins, now)
    /\ persisted' = Persist(status', persisted, UpdateCalls(ret.updater), swErr)
    /\ applied' = [updater |-> ret.updater, ins |-> ins,
                   updates |-> UpdateCalls(ret.updater),
                   swErr |-> IF UpdateCalls(ret.updater) = 1 THEN swErr ELSE NoErr,
                   repeat |-> applied.updater = ret.updater /\ applied.ins = ins,
                   logged |-> Logged(UpdateCalls(ret.updater), swErr),
                   lastOk |-> IF ret.updater.tag = "Success" THEN ins ELSE applied.lastOk]
    /\ UNCHANGED <<ret, now>>
    /\ UNCHANGED <<pruneVars, remote>>

\* the two assignments of errWithStatus
errWithStatusBody(st, err) ==
    [st EXCEPT !.Message = ErrorText(err),
               !.State = ErrorSyncState]

\* variant: the original error is returned whatever sw.Update returned
errWithStatusResult_Original(origerr, swErr) == origerr

\* what errWithStatus returns, given what its sw.Update call returned
errWithStatusResult(origerr, swErr) ==
    IF swErr # NoErr THEN swErr ELSE origerr

\* errWithStatus(obj, err, sw, ctx), called with a non-nil err
errWithStatus(err, swErr) ==
    /\ status' = errWithStatusBody(status, err)
    /\ persisted' = Persist(status', persisted, 1, swErr)
    /\ applied' = [updater |-> [tag |-> "errWithStatus", reason |-> ErrorText(err)],
                   ins |-> "", updates |-> 1, swErr |-> swErr, repeat |-> FALSE,
                   logged |-> FALSE, lastOk |-> applied.lastOk]
    /\ ret' = [fn |-> "errWithStatus", pre |-> NotCalled, op |-> NotCalled,
               calls |-> <<"sw.Update">>, updater |-> NoUpdater,
               err |-> errWithStatusResult(err, swErr), arg |-> err]
    /\ UNCHANGED now
    /\ UNCHANGED <<pruneVars, remote>>

\* time passes: time.Now() does not go back
Tick ==
    /\ now < MaxClock
    /\ now' = now + 1
    /\ UNCHANGED <<ret, status, persisted, applied>>
    /\ UNCHANGED <<pruneVars, remote>>

(***************************************************************************)
(* The policy version pruner.  A version is identified by the rank of its  *)
(* creation: version v is older than version w iff v < w.                  *)
(***************************************************************************)
maxVersions == 4

Passes == {"p1", "p2"}

\* the versions of set S, newest first
RECURSIVE NewestFirst(_)
NewestFirst(S) ==
    IF S = {} THEN <<>>
    ELSE LET m == CHOOSE x \in S : \A y \in S : y <= x
         IN <<m>> \o NewestFirst(S \ {m})

\* the versions of set S, oldest first
RECURSIVE OldestFirst(_)
OldestFirst(S) ==
    IF S = {} THEN <<>>
    ELSE LET m == CHOOSE x \in S : \A y \in S : x <= y
         IN <<m>> \o OldestFirst(S \ {m})

\* the orders svc.ListPolicyVersions may return the versions S in: the code
\* neither sorts the listing nor asks for an order
ListOrders(S) == {NewestFirst(S), OldestFirst(S)}

ListFault == [kind |-> "other", code |-> "", text |-> "list failed"]

DeleteFault == [kind |-> "other", code |-> "", text |-> "delete failed"]

NoSuchEntity == [kind |-> "other", code |-> "", text |-> "no such entity"]

\* DeletePolicyVersion(svc, policyARN, versionID) on a policy with versions vs,
\* when the provider answers a deletable version with fault (nil: it deletes)
DeletePolicyVersion(vs, versionID, fault) ==
    IF versionID \in vs THEN fault ELSE NoSuchEntity

\* variant: the loop stops one entry early
LoopContinues_OffByOne(j) == j > maxVersions

\* has the loop "for i := len - 1; i >= maxVersions; i--" another iteration at j
LoopContinues(j) == j >= maxVersions

\* variant: the loop goes on after a failed deletion
DeleteAborts_Never(err) == FALSE

\* "if err != nil { return err }" in the loop
DeleteAborts(err) == err # NoErr

\* the index the loop starts at
LoopStart(versionList) == Len(versionList) - 1

\* resp.Versions[j], 0-based
VersionAt(versionList, j) == versionList[j + 1]

PruneInit ==
    /\ \E n \in 0..MaxInitialVersions : versions = 1..n
    /\ pc = [p \in Passes |-> "idle"]
    /\ resp = [p \in Passes |-> <<>>]
    /\ i = [p \in Passes |-> 0]
    /\ perr = [p \in Passes |-> NoErr]
    /\ listErr = [p \in Passes |-> NoErr]
    /\ delCalls = [p \in Passes |-> <<>>]

\* CleanUpPolicyVersions up to its first DeletePolicyVersion call: the
\* listing, and the two early returns
CleanUpPolicyVersionsList(p, order, fault) ==
    /\ pc[p] \in {"idle", "done"}
    /\ listErr' = [listErr EXCEPT ![p] = fault]
    /\ delCalls' = [delCalls EXCEPT ![p] = <<>>]
    /\ IF fault # NoErr
       THEN /\ resp' = [resp EXCEPT ![p] = <<>>]
            /\ perr' = [perr EXCEPT ![p] = fault]
            /\ pc' = [pc EXCEPT ![p] = "done"]
            /\ i' = [i EXCEPT ![p] = 0]
       ELSE /\ resp' = [resp EXCEPT ![p] = order]
            /\ perr' = [perr EXCEPT ![p] = NoErr]
            /\ IF Len(order) <= maxVersions
               THEN /\ pc' = [pc EXCEPT ![p] = "done"]
                    /\ i' = [i EXCEPT ![p] = 0]
               ELSE /\ pc' = [pc EXCEPT ![p] = "deleting"]
                    /\ i' = [i EXCEPT ![p] = LoopStart(order)]
    /\ UNCHANGED versions
    /\ UNCHANGED <<dispVars, remote>>

\* one iteration of the loop of CleanUpPolicyVersions, and the return that
\* follows it when it fails or is the last
CleanUpPolicyVersionsDelete(p, fault) ==
    /\ pc[p] = "deleting"
    /\ LET v == VersionAt(resp[p], i[p])
           err == DeletePolicyVersion(versions, v, fault)
       IN /\ delCalls' = [delCalls EXCEPT ![p] = Append(@, [v |-> v, err |-> err])]
          /\ versions' = IF err = NoErr THEN versions \ {v} ELSE versions
          /\ IF DeleteAborts(err)
             THEN /\ perr' = [perr EXCEPT ![p] = err]
                  /\ pc' = [pc EXCEPT ![p] = "done"]
                  /\ UNCHANGED i
             ELSE /\ i' = [i EXCEPT ![p] = @ - 1]
                  /\ pc' = [pc EXCEPT ![p] = IF LoopContinues(i[p] - 1) THEN "deleting" ELSE "done"]
                  /\ UNCHANGED perr
    /\ UNCHANGED <<resp, listErr>>
    /\ UNCHANGED <<dispVars, remote>>

Init ==
    /\ DispInit
    /\ PruneInit
    /\ remote = "present"

Next ==
    \/ \E pre \in ErrOrNil : \E op \in OpResults(pre) : CreateAWSObject(pre, op)
    \/ \E pre \in ErrOrNil : \E op \in OpResults(pre) : UpdateAWSObject(pre, op)
    \/ \E pre \in ErrOrNil : \E op \in OpResults(pre) : DeleteAWSObject(pre, op)
    \/ \E ins \in Instances, swErr \in UpdateResults : ApplyStatusUpdater(ins, swErr)
    \/ Tick

\* the reconciliation of one resource, on a policy that has no versions
DispatchInit ==
    /\ Init
    /\ versions = {}

Spec == DispatchInit /\ [][Next]_vars

(***************************************************************************)
(* Deletion against the provider.  ins.Delete(svc) answers according to    *)
(* whether the entity exists: on an absent entity it returns an instance   *)
(* error with the "not yet created" code; on a present one it deletes it   *)
(* and returns nil, or returns another error, with the entity deleted or   *)
(* not.                                                                    *)
(***************************************************************************)
NotYetCreatedErrors == {e \in InstanceErrors : e.code = ErrAWSInstanceNotYetCreated}

InstanceDeleteOutcomes(r) ==
    IF r = "absent"
    THEN [op : NotYetCreatedErrors, after : {"absent"}]
    ELSE {[op |-> NoErr, after |-> "absent"]}
         \cup [op : Errors \ NotYetCreatedErrors, after : {"present", "absent"}]

\* the reconciler of a resource under deletion calls DeleteAWSObject
ReconcileDelete(pre, o) ==
    /\ ret' = DeleteAWSObjectResult(pre, IF pre = NoErr THEN o.op ELSE NotCalled)
    /\ remote' = IF pre = NoErr THEN o.after ELSE remote
    /\ UNCHANGED <<status, persisted, now, applied>>
    /\ UNCHANGED pruneVars

DeleteInit ==
    /\ DispInit
    /\ PruneInit
    /\ versions = {}
    /\ remote \in {"present", "absent"}

DeleteNext ==
    \/ \E pre \in ErrOrNil : \E o \in InstanceDeleteOutcomes(remote) : ReconcileDelete(pre, o)
    \/ \E ins \in Instances, swErr \in UpdateResults : ApplyStatusUpdater(ins, swErr)

\* a DeleteAWSObject call whose pre-check passes
PassingDelete == \E o \in InstanceDeleteOutcomes(remote) : ReconcileDelete(NoErr, o)

\* a DeleteAWSObject call whose pre-check passes and whose ins.Delete removes
\* the entity
DeleteTakesEffect ==
    /\ remote = "present"
    /\ \E o \in InstanceDeleteOutcomes(remote) : o.after = "absent" /\ ReconcileDelete(NoErr, o)

\* the reconciliation of a resource under deletion: the reconciler keeps
\* calling DeleteAWSObject with a passing pre-check, and the removal of a
\* present entity takes effect at some call
DeleteSpec ==
    /\ DeleteInit
    /\ [][DeleteNext]_vars
    /\ WF_vars(PassingDelete)
    /\ WF_vars(DeleteTakesEffect)

StatusNext ==
    \/ Next
    \/ \E err \in Errors, swErr \in UpdateResults : errWithStatus(err, swErr)

\* the reconciliation of one resource by a reconciler that also reports
\* errors of its own through errWithStatus
StatusSpec == DispatchInit /\ [][StatusNext]_vars

PruneNext ==
    \/ \E p \in Passes : \E order \in ListOrders(versions), fault \in {NoErr, ListFault} :
           CleanUpPolicyVersionsList(p, order, fault)
    \/ \E p \in Passes, fault \in {NoErr, DeleteFault} : CleanUpPolicyVersionsDelete(p, fault)

\* the pruning passes on one managed policy
PruneSpec == Init /\ [][PruneNext]_vars

(***************************************************************************)
(* Properties.                                                             *)
(***************************************************************************)
Dispatchers == {"Create", "Update", "Delete"}

\* some application of the returned updater is this step
IsApply == \E ins \in Instances, swErr \in UpdateResults : ApplyStatusUpdater(ins, swErr)

\* the last Delete call passed its pre-check and Instance.Delete returned an
\* instance error with the "not yet created" code
DeleteFoundAbsent ==
    /\ ret.fn = "Delete"
    /\ ret.pre = NoErr
    /\ ret.op.kind = "InstanceError"
    /\ ret.op.code = ErrAWSInstanceNotYetCreated

\* C1: whenever the pre-check of CreateAWSObject, UpdateAWSObject or
\* DeleteAWSObject returns an error e, the call returns an Error updater whose
\* message is e's text, and a non-nil error that is e.
C1_PreCheckFailure ==
    (ret.fn \in Dispatchers /\ ret.pre # NoErr) =>
        /\ ret.updater.tag = "Error"
        /\ ret.updater.reason = ret.pre.text
        /\ ret.err # NoErr
        /\ ret.err = ret.pre

\* a Delete whose pre-check failed with an instance error "not yet created"
C1_Witness ==
    /\ ret.fn = "Delete"
    /\ ret.pre.kind = "InstanceError"
    /\ ret.pre.code = ErrAWSInstanceNotYetCreated
    /\ ret.updater.tag = "Error"

\* C2: a DeleteAWSObject call whose pre-check passes and whose Instance.Delete
\* returns an instance error with the "not yet created" code returns the NoOp
\* updater and a nil error, whatever the error's text; applying the returned
\* updater leaves the Status Record unchanged.
C2_DeleteAlreadyAbsent ==
    /\ [](DeleteFoundAbsent => (ret.updater = DoNothingStatusUpdater /\ ret.err = NoErr))
    /\ [][(DeleteFoundAbsent /\ IsApply) => status' = status]_vars

\* the NoOp updater of such a Delete was applied to a status that had been written
C2_Witness ==
    /\ DeleteFoundAbsent
    /\ ret.op.text = "gone"
    /\ applied.updater = DoNothingStatusUpdater
    /\ status.State = OkSyncState

\* C3: a DeleteAWSObject call whose pre-check passes and whose Instance.Delete
\* returns any error other than an instance error with the "not yet created"
\* code returns an Error updater with that error's text and that same error.
C3_DeleteOtherError ==
    (/\ ret.fn = "Delete"
     /\ ret.pre = NoErr
     /\ ret.op \in Errors
     /\ ~(ret.op.kind = "InstanceError" /\ ret.op.code = ErrAWSInstanceNotYetCreated)) =>
        /\ ret.updater.tag = "Error"
        /\ ret.updater.reason = ret.op.text
        /\ ret.err # NoErr
        /\ ret.err = ret.op

\* a Delete that failed with an error of another type carrying the same code
C3_Witness ==
    /\ ret.fn = "Delete"
    /\ ret.pre = NoErr
    /\ ret.op.kind = "other"
    /\ ret.op.code = ErrAWSInstanceNotYetCreated
    /\ ret.err = ret.op

\* the last Create or Update call passed its pre-check and the operation returned nil
CreateOrUpdateSucceeded ==
    /\ ret.fn \in {"Create", "Update"}
    /\ ret.pre = NoErr
    /\ ret.op = NoErr

\* C4: a CreateAWSObject or UpdateAWSObject call whose pre-check and operation
\* both return nil returns a Success updater and a nil error, and applying
\* that updater sets State to Ok, ARN to the instance's ARN and Message to
\* "Succesfully reconciled".
C4_CreateUpdateSuccess ==
    /\ [](CreateOrUpdateSucceeded => (ret.updater.tag = "Success" /\ ret.err = NoErr))
    /\ [][\A ins \in Instances :
            (CreateOrUpdateSucceeded /\ \E swErr \in UpdateResults : ApplyStatusUpdater(ins, swErr)) =>
                /\ status'.State = "Ok"
                /\ status'.ARN = ARNString(ins)
                /\ status'.Message = "Succesfully reconciled"]_vars

\* the Success updater of a Create was applied over an earlier error status
C4_Witness ==
    /\ ret.fn = "Create"
    /\ CreateOrUpdateSucceeded
    /\ applied.updater.tag = "Success"
    /\ applied.ins = "policy"
    /\ status.ARN = ARNString("policy")
    /\ status.State = "Ok"
    /\ persisted.State = "Error"

\* C5: a CreateAWSObject or UpdateAWSObject call whose pre-check passes and
\* whose operation fails with e returns an Error updater with e's text and
\* returns e; no error code is squashed.
C5_CreateUpdateFailure ==
    (/\ ret.fn \in {"Create", "Update"}
     /\ ret.pre = NoErr
     /\ ret.op \in Errors) =>
        /\ ret.updater.tag = "Error"
        /\ ret.updater.reason = ret.op.text
        /\ ret.err # NoErr
        /\ ret.err = ret.op

\* a Create that failed with the instance error "not yet created"
C5_Witness ==
    /\ ret.fn = "Create"
    /\ ret.pre = NoErr
    /\ ret.op.kind = "InstanceError"
    /\ ret.op.code = ErrAWSInstanceNotYetCreated
    /\ ret.err = ret.op

\* the pass p listed the versions and none of its deletions failed
NoFailure(p) ==
    /\ listErr[p] = NoErr
    /\ \A k \in 1..Len(delCalls[p]) : delCalls[p][k].err = NoErr

\* C6: a finished CleanUpPolicyVersions pass that listed N versions and had no
\* deletion fail returned nil; it made no DeletePolicyVersion call if N <= 4,
\* and otherwise exactly N-4 calls, for the entries at positions N-1 down to 4
\* of its listing, in that order.
C6_PruneCalls ==
    \A p \in Passes :
        (pc[p] = "done" /\ NoFailure(p)) =>
            LET N == Len(resp[p])
            IN /\ perr[p] = NoErr
               /\ IF N <= 4
                  THEN delCalls[p] = <<>>
                  ELSE /\ Len(delCalls[p]) = N - 4
                       /\ \A k \in 1..(N - 4) : delCalls[p][k].v = VersionAt(resp[p], N - k)

\* a pass over 6 versions finished with 2 calls, and a pass over the 4 it
\* left made none
C6_Witness ==
    \E p, q \in Passes :
        /\ pc[p] = "done" /\ NoFailure(p) /\ Len(resp[p]) = 6 /\ Len(delCalls[p]) = 2
        /\ pc[q] = "done" /\ NoFailure(q) /\ Len(resp[q]) = 4 /\ delCalls[q] = <<>>

\* C7: in a CleanUpPolicyVersions pass a failed DeletePolicyVersion call is
\* the last call of the pass and the pass returns its error; the versions the
\* pass deleted before stay deleted; a failed ListPolicyVersions call ends
\* the pass with its error and no deletion call.
C7_PruneAbort ==
    \A p \in Passes :
        /\ \A k \in 1..Len(delCalls[p]) :
              IF delCalls[p][k].err # NoErr
              THEN /\ k = Len(delCalls[p])
                   /\ pc[p] = "done"
                   /\ perr[p] = delCalls[p][k].err
              ELSE delCalls[p][k].v \notin versions
        /\ listErr[p] # NoErr =>
              (pc[p] = "done" /\ perr[p] = listErr[p] /\ delCalls[p] = <<>>)

\* a pass deleted one version, failed on the next and stopped with two left to delete
C7_Witness ==
    \E p \in Passes :
        /\ pc[p] = "done"
        /\ Len(resp[p]) = 6
        /\ Len(delCalls[p]) = 2
        /\ delCalls[p][1].err = NoErr
        /\ delCalls[p][2].err = DeleteFault
        /\ perr[p] = DeleteFault
        /\ Cardinality(versions) = 5

\* the n newest versions of set S
RECURSIVE Newest(_, _)
Newest(S, n) ==
    IF n = 0 \/ S = {} THEN {}
    ELSE LET m == CHOOSE x \in S : \A y \in S : y <= x
         IN {m} \cup Newest(S \ {m}, n - 1)

\* the set of the entries of a listing
Entries(versionList) == {versionList[k] : k \in 1..Len(versionList)}

\* C8: after a CleanUpPolicyVersions pass that ran alone on a policy with more
\* than 4 versions and returned nil, the versions that remain are exactly the
\* 4 newest, and every deleted version is older than every retained one.
C8_KeepsNewest ==
    \A p \in Passes :
        (/\ pc[p] = "done"
         /\ NoFailure(p)
         /\ perr[p] = NoErr
         /\ Len(resp[p]) > 4
         /\ \A q \in Passes \ {p} : pc[q] = "idle") =>
            /\ versions = Newest(Entries(resp[p]), 4)
            /\ \A d \in Entries(resp[p]) \ versions : \A r \in versions : d < r

\* C9: applying the NoOp updater changes no field of the Status Record, in
\* memory or persisted, and makes no sw.Update call, whatever the status and
\* the instance.
C9_NoOpFrame ==
    [][(ret.updater.tag = "NoOp" /\ IsApply) =>
          /\ status' = status
          /\ persisted' = persisted
          /\ applied'.updates = 0]_vars

\* the NoOp updater was applied to an error status that was never persisted
C9_Witness ==
    /\ applied.updater = DoNothingStatusUpdater
    /\ applied.ins = "policy"
    /\ status.State = "Error"
    /\ persisted = EmptyStatus

\* C10: applying the Success updater a second time in a row to the same
\* resource leaves State (Ok), ARN and Message as the first application left
\* them, and LastSyncAttempt is not earlier than after the first.
C10_SuccessIdempotent ==
    [][\A ins \in Instances :
          (/\ applied.updater.tag = "Success"
           /\ applied.ins = ins
           /\ ret.updater.tag = "Success"
           /\ \E swErr \in UpdateResults : ApplyStatusUpdater(ins, swErr)) =>
              /\ status'.State = "Ok"
              /\ status'.State = status.State
              /\ status'.ARN = status.ARN
              /\ status'.Message = status.Message
              /\ Head(status'.LastSyncAttempt) >= Head(status.LastSyncAttempt)]_vars

\* the Success updater was applied twice in a row, the second time a minute later
C10_Witness ==
    /\ applied.updater.tag = "Success"
    /\ applied.repeat
    /\ status.LastSyncAttempt = <<1>>
    /\ persisted.LastSyncAttempt = <<0>>
    /\ persisted.State = "Ok"

\* C11: errWithStatus, given a non-nil error, leaves Message = the error's
\* text and State = Error in memory and makes one sw.Update call; it returns
\* the persistence error when that call fails and the given error otherwise,
\* never nil.
C11_ErrWithStatus ==
    ret.fn = "errWithStatus" =>
        /\ status.Message = ret.arg.text
        /\ status.State = "Error"
        /\ applied.updates = 1
        /\ ret.calls = <<"sw.Update">>
        /\ ret.err = (IF applied.swErr # NoErr THEN applied.swErr ELSE ret.arg)
        /\ applied.swErr # NoErr => ret.err # ret.arg
        /\ applied.swErr = NoErr => persisted = status
        /\ ret.err # NoErr

\* errWithStatus was given an instance error, its sw.Update call failed and
\* it returned the persistence error
C11_Witness ==
    /\ ret.fn = "errWithStatus"
    /\ ret.arg.kind = "InstanceError"
    /\ ret.err = PersistErr
    /\ status.State = "Error"
    /\ persisted.State = "Ok"

\* the three updater variants
UpdaterVariants ==
    {SuccessStatusUpdater, DoNothingStatusUpdater} \cup {ErrorStatusUpdater(t) : t \in ErrorTexts}

\* C12: a dispatcher call returns one of the three updater variants Success,
\* Error and NoOp; applying a Success or Error updater leaves State in
\* {Ok, Error}; and once State is Ok or Error no later step makes it unset.
C12_UpdaterVariants ==
    /\ [](ret.fn \in Dispatchers => ret.updater \in UpdaterVariants)
    /\ [][(IsApply /\ ret.updater.tag \in {"Success", "Error"}) =>
             status'.State \in {"Ok", "Error"}]_vars
    /\ [][status.State \in {"Ok", "Error"} => status'.State \in {"Ok", "Error"}]_vars

\* a Success, then an Error, then a NoOp updater were applied
C12_Witness ==
    /\ applied.updater = DoNothingStatusUpdater
    /\ applied.lastOk = "role"
    /\ status.State = "Error"
    /\ status.ARN = ARNString("role")

\* C13: applying an Error updater sets Message to its reason, State to Error
\* and LastSyncAttempt to the formatted time, and leaves ARN as it was; so,
\* over Success, Error and NoOp applications and errWithStatus calls, ARN is
\* empty until the first Success application and from then on is the ARN the
\* most recent Success application wrote.
C13_ErrorKeepsARN ==
    /\ [][\A ins \in Instances :
            (ret.updater.tag = "Error" /\ \E swErr \in UpdateResults : ApplyStatusUpdater(ins, swErr)) =>
                /\ status'.Message = ret.updater.reason
                /\ status'.State = "Error"
                /\ status'.LastSyncAttempt = FormatRFC822Z(now)
                /\ status'.ARN = status.ARN]_vars
    /\ [](status.ARN = (IF applied.lastOk = "" THEN "" ELSE ARNString(applied.lastOk)))

\* after a Success application for the policy two errors were recorded, the
\* second by an Error updater: ARN is still the policy's
C13_Witness ==
    /\ applied.updater.tag = "Error"
    /\ applied.lastOk = "policy"
    /\ status.ARN = ARNString("policy")
    /\ status.State = "Error"
    /\ status.Message = "gone"
    /\ persisted.Message = "boom"
    /\ persisted.ARN = ARNString("policy")

\* C14: when sw.Update fails inside a Success or Error updater, the updater
\* logs the failure and hands nothing to its caller, calls sw.Update once,
\* keeps the newly written fields in memory and leaves the persisted record
\* as it was.
C14_PersistFailureLogged ==
    [][\A ins \in Instances :
          (/\ ret.updater.tag \in {"Success", "Error"}
           /\ ApplyStatusUpdater(ins, PersistErr)) =>
              /\ applied'.logged
              /\ applied'.updates = 1
              /\ ret' = ret
              /\ persisted' = persisted
              /\ status'.State = (IF ret.updater.tag = "Success" THEN "Ok" ELSE "Error")
              /\ status'.Message = (IF ret.updater.tag = "Success"
                                    THEN "Succesfully reconciled" ELSE ret.updater.reason)
              /\ status'.LastSyncAttempt = FormatRFC822Z(now)
              /\ ret.updater.tag = "Success" => status'.ARN = ARNString(ins)]_vars

\* a Success updater was applied to a fresh resource and its sw.Update failed
C14_Witness ==
    /\ applied.updater.tag = "Success"
    /\ applied.swErr = PersistErr
    /\ applied.logged
    /\ status.State = "Ok"
    /\ persisted = EmptyStatus

\* some dispatcher call is this step
IsDispatch ==
    \E pre \in ErrOrNil : \E op \in OpResults(pre) :
        \/ CreateAWSObject(pre, op)
        \/ UpdateAWSObject(pre, op)
        \/ DeleteAWSObject(pre, op)

\* the number of entries of sequence calls that equal name
Count(calls, name) == Cardinality({k \in 1..Len(calls) : calls[k] = name})

\* C15: a dispatcher call invokes the pre-check exactly once and first; it
\* invokes its own Instance operation once after a pre-check that returned
\* nil and not at all after one that failed, and no other operation; and the
\* call itself changes neither the Status Record, in memory or persisted, nor
\* makes a sw.Update call: the status changes only when an updater is applied.
C15_SingleLinearAttempt ==
    /\ [](ret.fn \in Dispatchers =>
            /\ Count(ret.calls, "preFunc") = 1
            /\ ret.calls[1] = "preFunc"
            /\ Count(ret.calls, ret.fn) = (IF ret.pre = NoErr THEN 1 ELSE 0)
            /\ \A k \in 1..Len(ret.calls) : ret.calls[k] \in {"preFunc", ret.fn}
            /\ ret.pre # NoErr => ret.op = NotCalled)
    /\ [][IsDispatch => UNCHANGED <<status, persisted, applied>>]_vars
    /\ [][status' # status => IsApply]_vars

\* an Update whose pre-check passed ran its operation, on a resource whose
\* status still is the one an earlier Create left
C15_Witness ==
    /\ ret.fn = "Update"
    /\ ret.calls = <<"preFunc", "Update">>
    /\ ret.updater.tag = "Error"
    /\ status.State = "Ok"
    /\ applied.updater.tag = "Success"

\* C17: a dispatcher returns a non-nil error exactly when it returns an Error
\* updater; CreateAWSObject and UpdateAWSObject never return NoOp and
\* DeleteAWSObject never returns Success, so applying what a Delete returned
\* never makes State Ok and never changes ARN.
C17_ErrorIffErrorUpdater ==
    /\ [](ret.fn \in Dispatchers =>
            /\ (ret.err # NoErr) <=> (ret.updater.tag = "Error")
            /\ ret.fn \in {"Create", "Update"} => ret.updater.tag # "NoOp"
            /\ ret.fn = "Delete" => ret.updater.tag # "Success")
    /\ [][(ret.fn = "Delete" /\ IsApply) =>
             /\ status'.ARN = status.ARN
             /\ status'.State = "Ok" => status.State = "Ok"]_vars

\* the NoOp updater of a successful Delete was applied to an error status
\* with no ARN
C17_Witness ==
    /\ ret.fn = "Delete"
    /\ ret.pre = NoErr
    /\ ret.op = NoErr
    /\ ret.err = NoErr
    /\ applied.updater = DoNothingStatusUpdater
    /\ status.State = "Error"
    /\ status.ARN = ""

\* once the entity is absent, a DeleteAWSObject call with a passing pre-check
\* returns NoOp and a nil error and the entity stays absent
AbsentDeleteIsNoOp ==
    [][(remote = "absent" /\ PassingDelete) =>
          /\ ret'.updater = DoNothingStatusUpdater
          /\ ret'.err = NoErr
          /\ remote' = "absent"]_vars

Min(a, b) == IF a <= b THEN a ELSE b

\* the 0-based positions of version v in a listing
PositionsOf(versionList, v) == {j \in 0..(Len(versionList) - 1) : VersionAt(versionList, j) = v}

\* no DeletePolicyVersion call of a pass is for an entry at positions 0..3 of
\* the listing of that pass
C18_SparesFirstFour ==
    \A p \in Passes : \A k \in 1..Len(delCalls[p]) :
        \A j \in PositionsOf(resp[p], delCalls[p][k].v) : j >= 4

\* the number of versions does not fall below 4, nor at all when it is below 4
C18_CountKept ==
    [][Cardinality(versions') >= Min(Cardinality(versions), 4)]_vars

\* a finished pass that listed more than 4 versions and had no deletion fail,
\* with no other pass in its loop, leaves exactly 4 versions
C18_RetryLeavesFour ==
    \A p \in Passes :
        (/\ pc[p] = "done"
         /\ NoFailure(p)
         /\ Len(resp[p]) > 4
         /\ \A q \in Passes \ {p} : pc[q] # "deleting") =>
            Cardinality(versions) = 4

\* C18: over any sequence or interleaving of CleanUpPolicyVersions passes on
\* one policy, with no versions added, no pass deletes an entry at positions
\* 0..3 of its own listing, so the number of versions never falls below
\* min(initial number, 4); and a pass in which every deletion succeeds,
\* run after a partially failed one, leaves exactly 4 versions.
C18_NeverBelowFour ==
    /\ []C18_SparesFirstFour
    /\ C18_CountKept
    /\ []C18_RetryLeavesFour

====
